---- MODULE Spec2Model ----
(***************************************************************************)
(* gatecrasher: the compiler (compiler.py) that threads state through      *)
(* circuit definitions, and the console (console.py) that re-evaluates a   *)
(* selected circuit until its output stops changing.                       *)
(*                                                                         *)
(* Three specifications share the module:                                  *)
(*   Spec         parse_script: StateTracker.visit, StateTracker.analyze,  *)
(*                RewriteDeclarations.visit, over bounded sets of scripts; *)
(*   ConsoleSpec  CircuitConsole.runsource / _trigger_circuit over a       *)
(*                registry of compiled circuits;                           *)
(*   StateSpec    the unpack / pack statements the rewriter generates,     *)
(*                executed on bounded state values.                        *)
(*                                                                         *)
(* Identifiers of a script are written as tuples: <<i>> is the i-th plain  *)
(* identifier in lexical order (<<0>> the parameter a, <<1>> the name q,   *)
(* <<2>> the output y), <<dep, n>> is the synthesized slot "_{dep}_{n}".   *)
(* A definition is named by its position in the script.                    *)
(***************************************************************************)
EXTENDS Integers, Sequences, FiniteSets, TLC

\* Bounds of the model.
NDefs == 3          \* definitions of a general script
MaxSites == 2       \* call sites of a general script, all definitions together
ChainDepth == 4     \* links of a chain script: 1 calls 2 calls ... calls ChainDepth+1

VARIABLES
    prog,       \* the parsed script: definition name -> [args, returns, body]
    cpc,        \* parse_script's position: parsed, tracked, analyzed, rewritten, CycleError
    parts,      \* StateTracker.parts
    graph,      \* StateTracker.graph: the add(caller, callee) calls, in order
    tree,       \* the tree after RewriteDeclarations.visit
    \* CircuitConsole
    current_func,   \* the selected circuit's name, NoCircuit before a select
    inputs,         \* self.inputs: input name -> 0 or 1
    state,          \* self.state: the retained state value
    pc,             \* idle, running (inside _trigger_circuit's loop), stable
                    \* (left by break), aborted (left at MAX_ITERATIONS),
                    \* crashed (an exception left runsource)
    iteration,      \* _trigger_circuit's locals
    prev_result,
    result,
    rows,           \* rows printed by the current run
    \* History of the console, read by the properties only.
    invocations,    \* calls of the circuit made by the current run
    run_start,      \* the retained state when the current run began
    before_call,    \* the retained state before the latest call
    before_select,  \* [pc, state, inputs] before the latest select
    alternates,     \* whether the results of the current run alternate forever
    hist,           \* the runs since the latest select
    \* One execution of the generated unpack and pack statements
    layout,         \* [state, dep_state]: the names the statements carry
    supplied,       \* the state argument
    bound,          \* the values bound to the names by the unpack statement
    outgoing,       \* the value the pack statement leaves in state
    spc             \* called, unpacked, packed

compilerVars == <<prog, cpc, parts, graph, tree>>
consoleVars == <<current_func, inputs, state, pc, iteration, prev_result, result, rows,
                 invocations, run_start, before_call, before_select, alternates, hist>>
stateVars == <<layout, supplied, bound, outgoing, spc>>
vars == <<compilerVars, consoleVars, stateVars>>

(***************************************************************************)
(* Sequence helpers.                                                       *)
(***************************************************************************)
RECURSIVE Flatten(_)
Flatten(ss) == IF ss = <<>> THEN <<>> ELSE Head(ss) \o Flatten(Tail(ss))

Range(s) == {s[i] : i \in DOMAIN s}

\* sorted(): the members of a set of naturals in ascending order.
RECURSIVE Sorted(_)
Sorted(S) ==
    IF S = {} THEN <<>>
    ELSE LET m == CHOOSE x \in S : \A y \in S : x <= y
         IN <<m>> \o Sorted(S \ {m})

(***************************************************************************)
(* The syntax tree.  An expression is [kind, id, args]:                    *)
(*   Name  "name", the identifier, no args                                 *)
(*   Call  "call", <<callee>>, the argument expressions                    *)
(*   Not   "not",  <<>>, the operand (any non-call operator over a call)   *)
(* A statement is an Assign: [target, value], target the identifiers of    *)
(* targets[0]: <<y>> for "y = ...", <<y, s>> for "(y, s) = ...".           *)
(***************************************************************************)
Name(id) == [kind |-> "name", id |-> id, args |-> <<>>]
Call(f, args) == [kind |-> "call", id |-> <<f>>, args |-> args]
Not(e) == [kind |-> "not", id |-> <<>>, args |-> <<e>>]
Assign(target, value) == [target |-> <<target>>, value |-> value]

\* The call expressions of an expression in encounter order (pre-order).
RECURSIVE CallNodes(_)
CallNodes(e) ==
    (IF e.kind = "call" THEN <<e>> ELSE <<>>)
        \o Flatten([i \in DOMAIN e.args |-> CallNodes(e.args[i])])

BodyCallNodes(body) == Flatten([i \in DOMAIN body |-> CallNodes(body[i].value)])

\* The identifiers an expression reads (Name nodes, ctx Load); a callee is
\* node.func, which visit_Call does not visit.
RECURSIVE LoadedNames(_)
LoadedNames(e) ==
    (IF e.kind = "name" THEN {e.id} ELSE {})
        \cup UNION {LoadedNames(e.args[i]) : i \in DOMAIN e.args}

(***************************************************************************)
(* The scripts.  A definition is [args, returns, body]; every definition   *)
(* is "def d(a) -> y".  Its body optionally starts with "y = q" (a read of *)
(* a non-parameter) and continues with assignments from calls:             *)
(*    y = f(a)        y = not f(a)        y = f(g(a))                      *)
(***************************************************************************)
IdA == <<0>>
IdQ == <<1>>
IdY == <<2>>

\* The call statements with one call site, and with two.
CallStmts(N, sites) ==
    IF sites = 1
    THEN {Assign(IdY, Call(f, <<Name(IdA)>>)) : f \in 1..N}
            \cup {Assign(IdY, Not(Call(f, <<Name(IdA)>>))) : f \in 1..N}
    ELSE {Assign(IdY, Call(f, <<Call(g, <<Name(IdA)>>)>>)) : f \in 1..N, g \in 1..N}

\* The sequences of call statements over callees 1..N with exactly k call sites.
RECURSIVE CallBodies(_, _)
CallBodies(N, k) ==
    IF k = 0 THEN {<<>>}
    ELSE {<<s>> \o b : s \in CallStmts(N, 1), b \in CallBodies(N, k - 1)}
            \cup (IF k = 1 THEN {}
                  ELSE {<<s>> \o b : s \in CallStmts(N, 2), b \in CallBodies(N, k - 2)})

Def(body) == [args |-> <<IdA>>, returns |-> <<IdY>>, body |-> body]

\* The definitions with exactly k call sites, without and with the read of q.
DefsWith(N, k) ==
    {Def(b) : b \in CallBodies(N, k)}
        \cup {Def(<<Assign(IdY, Name(IdQ))>> \o b) : b \in CallBodies(N, k)}

\* DefsTable[k]: the definitions of a general script with exactly k call sites.
DefsTable == [k \in 0..MaxSites |-> DefsWith(NDefs, k)]

\* The script is any extension of the definitions in prefix to NDefs
\* definitions that adds at most k call sites.
RECURSIVE ScriptIs(_, _)
ScriptIs(prefix, k) ==
    IF Len(prefix) = NDefs THEN prog = prefix
    ELSE \E j \in 0..k : \E d \in DefsTable[j] : ScriptIs(Append(prefix, d), k - j)

\* The chain scripts: definition i calls i+1, directly or under an operator.
ChainScripts ==
    LET L == ChainDepth + 1
        Link(i, form) == IF form = "call" THEN Assign(IdY, Call(i + 1, <<Name(IdA)>>))
                         ELSE Assign(IdY, Not(Call(i + 1, <<Name(IdA)>>)))
    IN {[i \in 1..L |->
            Def((IF own[i] THEN <<Assign(IdY, Name(IdQ))>> ELSE <<>>)
                    \o (IF i < L THEN <<Link(i, form[i])>> ELSE <<>>))] :
          own \in [1..L -> BOOLEAN], form \in [1..L -> {"call", "not"}]}


(***************************************************************************)
(* StateTracker                                                            *)
(***************************************************************************)
\* visit_FunctionDef: the part recorded for one definition.
TrackFunctionDef(def) ==
    LET loads == UNION {LoadedNames(def.body[i].value) : i \in DOMAIN def.body}
        own == {id[1] : id \in {l \in loads : l \notin Range(def.args)}}
        own_state == [i \in DOMAIN Sorted(own) |-> <<Sorted(own)[i]>>]
        calls == BodyCallNodes(def.body)
    IN [args |-> def.args,
        state |-> own_state,
        deps |-> [i \in DOMAIN calls |-> calls[i].id[1]],
        dep_state |-> <<>>,
        returns |-> def.returns,
        stateful |-> own_state # <<>>]

\* visit_Call's graph.add(self.func, callee), for every call of every definition.
TrackGraph(p) ==
    Flatten([d \in DOMAIN p |->
                [i \in DOMAIN BodyCallNodes(p[d].body) |->
                    <<d, BodyCallNodes(p[d].body)[i].id[1]>>]])

(***************************************************************************)
(* graphlib.TopologicalSorter, as the tracker uses it: add(node, pred)     *)
(* per call, then static_order().                                          *)
(***************************************************************************)
\* The nodes in the order add() first met them: the caller, then the callee.
RECURSIVE Dedupe(_, _)
Dedupe(s, seen) ==
    IF s = <<>> THEN <<>>
    ELSE IF Head(s) \in seen THEN Dedupe(Tail(s), seen)
    ELSE <<Head(s)>> \o Dedupe(Tail(s), seen \cup {Head(s)})

NodeOrder(g) == Dedupe(Flatten([i \in DOMAIN g |-> <<g[i][1], g[i][2]>>]), {})

\* npredecessors: one per add() call naming the node as caller.
NPred(g, node) == Cardinality({i \in DOMAIN g : g[i][1] = node})

\* successors of a callee: its callers, one per add() call.
Successors(g, node) ==
    LET es == SelectSeq(g, LAMBDA e : e[2] = node)
    IN [i \in DOMAIN es |-> es[i][1]]

\* The nodes a set of nodes reaches through calls (itself included).
RECURSIVE ReachFrom(_, _)
ReachFrom(g, S) ==
    LET T == S \cup {e[2] : e \in {x \in Range(g) : x[1] \in S}}
    IN IF T = S THEN S ELSE ReachFrom(g, T)

\* Only a node that is its own predecessor counts as a cycle.
FindCycle_SelfOnly(g) ==
    \E e \in Range(g) : e[1] = e[2]

\* prepare(): a cycle among the nodes raises CycleError.
FindCycle(g) ==
    \E e \in Range(g) : e[1] \in ReachFrom(g, {e[2]})

\* done(*nodes): each successor loses one predecessor and is ready at zero.
RECURSIVE Release(_, _, _)
Release(decs, npred, ready) ==
    IF decs = <<>> THEN [npred |-> npred, ready |-> ready]
    ELSE LET s == Head(decs)
             np == [npred EXCEPT ![s] = @ - 1]
         IN Release(Tail(decs), np, IF np[s] = 0 THEN Append(ready, s) ELSE ready)

\* static_order(): yield the ready nodes, mark them done, repeat.
RECURSIVE Layers(_, _, _)
Layers(g, npred, ready) ==
    IF ready = <<>> THEN <<>>
    ELSE LET r == Release(Flatten([i \in DOMAIN ready |-> Successors(g, ready[i])]),
                          npred, <<>>)
         IN ready \o Layers(g, r.npred, r.ready)

StaticOrder(g) ==
    LET npred == [n \in Range(NodeOrder(g)) |-> NPred(g, n)]
    IN Layers(g, npred, SelectSeq(NodeOrder(g), LAMBDA n : npred[n] = 0))

(***************************************************************************)
(* StateTracker.analyze                                                    *)
(***************************************************************************)
\* dep_id = f"_{dep_name}_{n}"
SlotId(dep_name, n) == <<dep_name, n>>

\* n is not advanced.
NextN_Stuck(n) == n

\* n += 1
NextN(n) == n + 1

\* The loop over part["deps"]: a slot per dependency that is stateful by now.
RECURSIVE SubStates(_, _, _)
SubStates(ps, deps, n) ==
    IF deps = <<>> THEN [sub_states |-> <<>>, n |-> n]
    ELSE IF ps[Head(deps)].stateful
         THEN LET rest == SubStates(ps, Tail(deps), NextN(n))
              IN [sub_states |-> <<SlotId(Head(deps), n)>> \o rest.sub_states,
                  n |-> rest.n]
         ELSE SubStates(ps, Tail(deps), n)

\* Only the definition's own state variables count.
MarksStateful_OwnOnly(part) == part.state # <<>>

\* if part["state"] or part["dep_state"]
MarksStateful(part) == part.state # <<>> \/ part.dep_state # <<>>

\* The loop over static_order().
RECURSIVE AnalyzeParts(_, _, _)
AnalyzeParts(order, ps, n) ==
    IF order = <<>> THEN ps
    ELSE LET part_name == Head(order)
             r == SubStates(ps, ps[part_name].deps, n)
             p1 == [ps[part_name] EXCEPT !.dep_state = r.sub_states]
             p2 == [p1 EXCEPT !.stateful = IF MarksStateful(p1) THEN TRUE ELSE @]
         IN AnalyzeParts(Tail(order), [ps EXCEPT ![part_name] = p2], r.n)

(***************************************************************************)
(* RewriteDeclarations                                                     *)
(***************************************************************************)
\* if self.parts[call.func.id].get("state")
NeedsSlot(ps, call) == ps[call.id[1]].state # <<>>

\* visit_Assign: [stmt, calls], calls what is left of self.calls.
VisitAssign(ps, stmt, calls) ==
    IF stmt.value.kind = "call" /\ NeedsSlot(ps, stmt.value)
    THEN LET part_state == Head(calls)
         IN [stmt |-> [target |-> Append(stmt.target, part_state),
                       value |-> [stmt.value EXCEPT
                                     !.args = Append(@, Name(part_state))]],
             calls |-> Tail(calls)]
    ELSE [stmt |-> stmt, calls |-> calls]

\* generic_visit(node) over the body: the statements in order.
RECURSIVE VisitBody(_, _, _)
VisitBody(ps, body, calls) ==
    IF body = <<>> THEN [body |-> <<>>, calls |-> calls]
    ELSE LET first == VisitAssign(ps, Head(body), calls)
             rest == VisitBody(ps, Tail(body), first.calls)
         IN [body |-> <<first.stmt>> \o rest.body, calls |-> rest.calls]

\* _unpack_state: "<names> = state if state else (<defaults>)"
UnpackStmt(state_vars, dep_slots) ==
    [names |-> state_vars \o dep_slots,
     defaults |-> [i \in DOMAIN state_vars |-> "0"] \o [i \in DOMAIN dep_slots |-> "None"]]

\* _pack_state: "state = (<names>)"
PackStmt(state_vars, dep_slots) == [names |-> state_vars \o dep_slots]

\* visit_FunctionDef: the rewritten definition; unpack and pack hold the
\* statement put before and after the body (none when not stateful), ret the
\* appended return statement.
RewriteFunctionDef(ps, name, def) ==
    LET p == ps[name]
        visited == VisitBody(ps, def.body, p.dep_state)
    IN [args |-> IF p.stateful THEN Append(def.args, <<"state">>) ELSE def.args,
        unpack |-> IF p.stateful THEN <<UnpackStmt(p.state, p.dep_state)>> ELSE <<>>,
        body |-> visited.body,
        pack |-> IF p.stateful THEN <<PackStmt(p.state, p.dep_state)>> ELSE <<>>,
        ret |-> [values |-> p.returns, state |-> p.stateful]]

(***************************************************************************)
(* Python values: None, an int (True and False are the ints 1 and 0), a    *)
(* tuple.                                                                  *)
(***************************************************************************)
None == <<"None">>
PyInt(i) == <<"int", i>>
PyTuple(elts) == <<"tuple", elts>>

\* bool(v), as "state if state else ..." tests it.
Truthy(v) ==
    CASE v[1] = "None" -> FALSE
      [] v[1] = "int" -> v[2] # 0
      [] v[1] = "tuple" -> v[2] # <<>>

\* The value of a literal of the generated defaults.
Literal(text) == IF text = "0" THEN PyInt(0) ELSE None

\* F(x), with x evaluated once.
Once(F(_), x) == CHOOSE r \in {F(v) : v \in {x}} : TRUE

Return(v) == [ok |-> TRUE, value |-> v]
Raise == [ok |-> FALSE, value |-> None]

(***************************************************************************)
(* The statements _unpack_state and _pack_state generate, executed.        *)
(***************************************************************************)
\* "(<defaults>)": parentheses around one literal are no tuple.
DefaultsValue(defaults) ==
    IF Len(defaults) = 1 THEN Literal(defaults[1])
    ELSE PyTuple([i \in DOMAIN defaults |-> Literal(defaults[i])])

\* "<names> = state if state else (<defaults>)": the values bound to the
\* names, in order; a target list of two or more names unpacks a tuple of
\* that length and raises on anything else.
ExecUnpack(stmt, st) ==
    Once(LAMBDA source :
            IF Len(stmt.names) = 1 THEN [ok |-> TRUE, vals |-> <<source>>]
            ELSE IF source[1] = "tuple" /\ Len(source[2]) = Len(stmt.names)
                 THEN [ok |-> TRUE, vals |-> source[2]]
                 ELSE [ok |-> FALSE, vals |-> <<>>],
         IF Truthy(st) THEN st ELSE DefaultsValue(stmt.defaults))

\* One name is packed as a tuple of one.
ExecPack_AlwaysTuple(stmt, vals) == PyTuple(vals)

\* "state = (<names>)": parentheses around one name are no tuple.
ExecPack(stmt, vals) ==
    IF Len(stmt.names) = 1 THEN vals[1] ELSE PyTuple(vals)

(***************************************************************************)
(* The circuits the console is started with: exec_tree's defs for          *)
(*   def AND(a, b) -> y:      y = a and b                                  *)
(*   def NAND(a, b) -> y:     y = not AND(a, b)                            *)
(*   def OSC(a) -> y:         y = a - q ; q = y                            *)
(*   def SAT(a) -> y:         y = q > 1 ; q = q + (q < 3)                  *)
(*   def COUNT(a) -> count:   count                                        *)
(*   def DIV(a) -> y:         y = 1 // (1 - q) ; q = a                     *)
(* Compiled(c) is the part parse_script records for c.  OSC reads y as     *)
(* well as q, so both are its state; no circuit calls a stateful one, so   *)
(* no dep_state slot exists.                                               *)
(***************************************************************************)
Circuits == {"AND", "NAND", "OSC", "SAT", "COUNT", "DIV"}
NoCircuit == "None"

Compiled(c) ==
    [args |-> IF c \in {"AND", "NAND"} THEN <<"a", "b">> ELSE <<"a">>,
     state |-> CASE c = "OSC" -> <<"q", "y">>
                 [] c \in {"SAT", "DIV"} -> <<"q">>
                 [] c = "COUNT" -> <<"count">>
                 [] OTHER -> <<>>,
     dep_state |-> <<>>,
     returns |-> IF c = "COUNT" THEN <<"count">> ELSE <<"y">>]

\* The parameters of the rewritten definition (RewriteFunctionDef's args).
Signature(c) ==
    IF MarksStateful(Compiled(c)) THEN Append(Compiled(c).args, "state")
    ELSE Compiled(c).args

\* The body of circuit c run on the int arguments a and the values vals of
\* its state names: [ok, vals, out], the state names' values after the last
\* statement and the value of the returned name; not ok when a statement
\* raises (DIV divides by zero).
RunBody(c, a, vals) ==
    CASE c = "AND" ->
            [ok |-> TRUE, vals |-> vals,
             out |-> IF a[1][2] = 0 THEN a[1] ELSE a[2]]
      [] c = "NAND" ->
            [ok |-> TRUE, vals |-> vals,
             out |-> IF (IF a[1][2] = 0 THEN a[1] ELSE a[2])[2] = 0
                     THEN PyInt(1) ELSE PyInt(0)]
      [] c = "OSC" ->
            LET y == PyInt(a[1][2] - vals[1][2])
            IN [ok |-> TRUE, vals |-> <<y, y>>, out |-> y]
      [] c = "SAT" ->
            LET q == vals[1][2]
            IN [ok |-> TRUE,
                vals |-> <<PyInt(q + (IF q < 3 THEN 1 ELSE 0))>>,
                out |-> PyInt(IF q > 1 THEN 1 ELSE 0)]
      [] c = "COUNT" ->
            [ok |-> TRUE, vals |-> vals, out |-> vals[1]]
      [] c = "DIV" ->
            IF 1 - vals[1][2] = 0 THEN [ok |-> FALSE, vals |-> vals, out |-> None]
            ELSE [ok |-> TRUE, vals |-> <<a[1]>>,
                  out |-> PyInt(1 \div (1 - vals[1][2]))]

\* The call c(*actuals) of the rewritten definition: a stateful one takes
\* the state as an optional last argument, unpacks it, runs the body, packs,
\* and returns (outputs, state); any other returns its output.  A wrong
\* number of arguments raises TypeError.
CallStateful(c, part, actuals) ==
    LET n == Len(part.args)
        st == IF Len(actuals) = n + 1 THEN actuals[n + 1] ELSE None
    IN IF Len(actuals) \notin {n, n + 1} THEN Raise
       ELSE Once(LAMBDA u :
                    IF ~u.ok THEN Raise
                    ELSE Once(LAMBDA b :
                                 IF ~b.ok THEN Raise
                                 ELSE Return(PyTuple(<<b.out,
                                         ExecPack(PackStmt(part.state, part.dep_state),
                                                  b.vals)>>)),
                              RunBody(c, SubSeq(actuals, 1, n), u.vals)),
                 ExecUnpack(UnpackStmt(part.state, part.dep_state), st))

CallStateless(c, part, actuals) ==
    IF Len(actuals) # Len(part.args) THEN Raise
    ELSE Once(LAMBDA b : IF b.ok THEN Return(b.out) ELSE Raise,
              RunBody(c, actuals, <<>>))

CallCircuit(c, actuals) ==
    Once(LAMBDA given :
            IF MarksStateful(Compiled(c)) THEN CallStateful(c, Compiled(c), given)
            ELSE CallStateless(c, Compiled(c), given),
         actuals)

(***************************************************************************)
(* CircuitConsole                                                          *)
(***************************************************************************)
MAX_ITERATIONS == 100

\* {name: 0 for name in sig.parameters if name != 'state'}, with state kept.
SelectInputs_KeepState(c) == [name \in Range(Signature(c)) |-> 0]

\* {name: 0 for name in sig.parameters if name != 'state'}
SelectInputs(c) == [name \in {p \in Range(Signature(c)) : p # "state"} |-> 0]

\* input_values = [self.inputs[name] for name in self.inputs]
InputValuesOf(c, ins) == [i \in DOMAIN Compiled(c).args |-> PyInt(ins[Compiled(c).args[i]])]

InputValues == InputValuesOf(current_func, inputs)

\* "result, self.state = <returned>": the pair the target list unpacks;
\* not ok when the call raised or did not return a pair.
Returned(ret) ==
    Once(LAMBDA r :
            IF r.ok /\ r.value[1] = "tuple" /\ Len(r.value[2]) = 2
            THEN [ok |-> TRUE, result |-> r.value[2][1], state |-> r.value[2][2]]
            ELSE [ok |-> FALSE, result |-> None, state |-> None],
         ret)

\* The failed call clears the retained state.
StateAfterRaise_Cleared(old) == None

\* self.state when the call raises: the assignment never happens.
StateAfterRaise(old) == old

\* The new state is stored only after the stabilization test fails.
StateAfterCall_StoredAfterTest(old, pair, prev) ==
    IF pair.result = prev THEN old ELSE pair.state

\* self.state after "result, self.state = ...": stored before
\* "if result == prev_result" is tested.
StateAfterCall(old, pair, prev) == pair.state

\* while iteration <= MAX_ITERATIONS
LoopContinues_Inclusive(i) == i <= MAX_ITERATIONS

\* while iteration < MAX_ITERATIONS
LoopContinues(i) == i < MAX_ITERATIONS

\* The calls from state st on the inputs ins return results that alternate
\* between two values for ever: each differs from the one before (prev) and
\* equals the one before that (prev2, None when there is none yet), up to
\* the call that finds a state met before (seen) and for the two calls after
\* it (more counts them down), from where on the calls repeat.  At most k
\* calls are tried for the state to come back.
OrbitDepth == 6

RECURSIVE AlternatesFrom(_, _, _, _, _, _, _, _)
AlternatesFrom(c, ins, st, prev, prev2, seen, more, k) ==
    IF more = 0 THEN TRUE
    ELSE IF k = 0 THEN FALSE
    ELSE \A pair \in {Returned(CallCircuit(c, Append(ins, st)))},
            met \in {seen \cup {st}},
            left \in {IF st \in seen \/ more < 2 THEN more - 1 ELSE more},
            last \in {prev} :
            /\ pair.ok
            /\ pair.result # last
            /\ prev2 = None \/ pair.result = prev2
            /\ AlternatesFrom(c, ins, pair.state, pair.result, last, met, left, k - 1)

ConsoleInit ==
    /\ current_func = NoCircuit
    /\ inputs = <<>>
    /\ state = None
    /\ pc = "idle"
    /\ iteration = 0
    /\ prev_result = None
    /\ result = None
    /\ rows = 0
    /\ invocations = 0
    /\ run_start = None
    /\ before_call = None
    /\ before_select = [pc |-> "idle", state |-> None, inputs |-> <<>>]
    /\ alternates = FALSE
    /\ hist = [n |-> 0, same |-> TRUE, fresh |-> None, ended |-> "idle", fixed |-> FALSE]

BetweenCommands == pc \in {"idle", "stable", "aborted"}

\* runsource("@name"), name in self.locals
Select(name) ==
    /\ BetweenCommands
    /\ name \in Circuits
    /\ inputs' = SelectInputs(name)
    /\ current_func' = name
    /\ state' = None
    /\ pc' = "idle"
    /\ iteration' = 0
    /\ prev_result' = None
    /\ result' = None
    /\ rows' = 0
    /\ invocations' = 0
    /\ run_start' = None
    /\ before_call' = None
    /\ before_select' = [pc |-> pc, state |-> state, inputs |-> inputs]
    /\ alternates' = FALSE
    /\ hist' = [n |-> 0, same |-> TRUE, fresh |-> None, ended |-> "idle", fixed |-> FALSE]

\* runsource("@name"), name unknown: "Unknown circuit" is printed.
SelectUnknown ==
    /\ BetweenCommands
    /\ UNCHANGED consoleVars

\* _trigger_circuit up to its loop.
StartRun ==
    /\ iteration' = 0
    /\ prev_result' = None
    /\ rows' = 0
    /\ invocations' = 0
    /\ run_start' = state
    /\ alternates' = AlternatesFrom(current_func, InputValuesOf(current_func, inputs'),
                                    state, None, None, {}, 2, OrbitDepth)
    /\ pc' = IF LoopContinues(0) THEN "running" ELSE "aborted"
    /\ UNCHANGED <<current_func, state, result, before_call, before_select>>

\* runsource(name), name in self.inputs
Toggle(name) ==
    /\ BetweenCommands
    /\ name \in DOMAIN inputs
    /\ current_func # NoCircuit
    /\ inputs' = [inputs EXCEPT ![name] = 1 - @]
    /\ hist' = [hist EXCEPT !.same = (hist.n = 0)]
    /\ StartRun

\* runsource(""), a circuit selected
Tick ==
    /\ BetweenCommands
    /\ current_func # NoCircuit
    /\ UNCHANGED <<inputs, hist>>
    /\ StartRun

\* The run that ends counts as one more run since the select; the first one
\* is remembered: its result, how it ended, and whether its last call left
\* the retained state as it was.
RunEnds(res, ended, before, after) ==
    hist' = [n |-> IF hist.n = 0 THEN 1 ELSE 2,
             same |-> hist.same,
             fresh |-> IF hist.n = 0 THEN res ELSE hist.fresh,
             ended |-> IF hist.n = 0 THEN ended ELSE hist.ended,
             fixed |-> IF hist.n = 0 THEN before = after ELSE hist.fixed]

\* One pass of the loop whose call raises, or returns no pair: the exception
\* leaves _trigger_circuit, runsource and interact.
IterateRaises ==
    /\ pc = "running"
    /\ ~Returned(CallCircuit(current_func, Append(InputValues, state))).ok
    /\ state' = StateAfterRaise(state)
    /\ before_call' = state
    /\ invocations' = invocations + 1
    /\ pc' = "crashed"
    /\ UNCHANGED <<current_func, inputs, iteration, prev_result, result, rows,
                   run_start, before_select, alternates, hist>>

\* One pass of the loop that ends in break.
IterateStable ==
    /\ pc = "running"
    /\ \E pair \in {Returned(CallCircuit(current_func, Append(InputValues, state)))} :
       /\ pair.ok
       /\ pair.result = prev_result
       /\ result' = pair.result
       /\ state' = StateAfterCall(state, pair, prev_result)
       /\ before_call' = state
       /\ invocations' = invocations + 1
       /\ pc' = "stable"
       /\ RunEnds(pair.result, "stable", state, state')
       /\ UNCHANGED <<current_func, inputs, iteration, prev_result, rows,
                      run_start, before_select, alternates>>

\* One pass of the loop that prints a row; the loop ends when the condition
\* of the while fails.
IteratePrints ==
    /\ pc = "running"
    /\ \E pair \in {Returned(CallCircuit(current_func, Append(InputValues, state)))} :
       /\ pair.ok
       /\ pair.result # prev_result
       /\ result' = pair.result
       /\ state' = StateAfterCall(state, pair, prev_result)
       /\ before_call' = state
       /\ invocations' = invocations + 1
       /\ rows' = rows + 1
       /\ prev_result' = pair.result
       /\ iteration' = iteration + 1
       /\ IF LoopContinues(iteration + 1)
          THEN pc' = "running" /\ UNCHANGED hist
          ELSE pc' = "aborted" /\ RunEnds(pair.result, "aborted", state, state')
       /\ UNCHANGED <<current_func, inputs, run_start, before_select, alternates>>

(***************************************************************************)
(* parse_script                                                            *)
(***************************************************************************)
CompilerInit ==
    /\ \/ ScriptIs(<<>>, MaxSites)
       \/ prog \in ChainScripts
    /\ cpc = "parsed"
    /\ parts = <<>>
    /\ graph = <<>>
    /\ tree = prog

\* tracker.visit(tree)
Track ==
    /\ cpc = "parsed"
    /\ parts' = [d \in DOMAIN prog |-> TrackFunctionDef(prog[d])]
    /\ graph' = TrackGraph(prog)
    /\ cpc' = "tracked"
    /\ UNCHANGED <<prog, tree>>

\* tracker.analyze(): static_order() raises before the first part is read.
AnalyzeCycle ==
    /\ cpc = "tracked"
    /\ FindCycle(graph)
    /\ cpc' = "CycleError"
    /\ UNCHANGED <<prog, parts, graph, tree>>

\* tracker.analyze()
Analyze ==
    /\ cpc = "tracked"
    /\ ~FindCycle(graph)
    /\ parts' = AnalyzeParts(StaticOrder(graph), parts, 0)
    /\ cpc' = "analyzed"
    /\ UNCHANGED <<prog, graph, tree>>

\* rewriter.visit(tree)
Rewrite ==
    /\ cpc = "analyzed"
    /\ tree' = [d \in DOMAIN prog |-> RewriteFunctionDef(parts, d, prog[d])]
    /\ cpc' = "rewritten"
    /\ UNCHANGED <<prog, parts, graph>>


(***************************************************************************)
(* One execution of the unpack and pack statements of a stateful           *)
(* definition, with no statement between them.                             *)
(***************************************************************************)
MaxVars == 2        \* own state variables of a layout
MaxSlots == 2       \* dep_state slots of a layout
MaxVal == 2         \* the ints a supplied state holds are 0..MaxVal

\* The layouts: own variables <<1>>..<<v>> (sorted), slots <<1, 0>>..<<1, s - 1>>.
Layouts ==
    {[state |-> [i \in 1..v |-> <<i>>], dep_state |-> [j \in 1..s |-> SlotId(1, j - 1)]] :
        v \in 0..MaxVars, s \in 0..MaxSlots} \ {[state |-> <<>>, dep_state |-> <<>>]}

\* The states a caller can supply for a layout: an int per own variable, None
\* or a callee's state per slot; in a tuple, or (one component) bare.
SuppliedFor(l) ==
    LET nv == Len(l.state)
        n == nv + Len(l.dep_state)
        Ints == {PyInt(v) : v \in 0..MaxVal}
        Vals == {f \in [1..n -> Ints \cup {None}] : \A i \in 1..nv : f[i] # None}
    IN {PyTuple(f) : f \in Vals} \cup (IF n = 1 THEN {f[1] : f \in Vals} ELSE {})

StateInit ==
    /\ layout \in Layouts
    /\ supplied \in {None} \cup SuppliedFor(layout)
    /\ bound = <<>>
    /\ outgoing = None
    /\ spc = "called"

\* The unpack statement at the start of the body.
Unpack ==
    /\ spc = "called"
    /\ ExecUnpack(UnpackStmt(layout.state, layout.dep_state), supplied).ok
    /\ bound' = ExecUnpack(UnpackStmt(layout.state, layout.dep_state), supplied).vals
    /\ spc' = "unpacked"
    /\ UNCHANGED <<layout, supplied, outgoing>>

\* The pack statement at the end of the body.
Pack ==
    /\ spc = "unpacked"
    /\ outgoing' = ExecPack(PackStmt(layout.state, layout.dep_state), bound)
    /\ spc' = "packed"
    /\ UNCHANGED <<layout, supplied, bound>>

(***************************************************************************)
(* The specifications.                                                     *)
(***************************************************************************)
CompilerIdle ==
    /\ prog = <<>>
    /\ cpc = "parsed"
    /\ parts = <<>>
    /\ graph = <<>>
    /\ tree = <<>>

StateIdle ==
    /\ layout = [state |-> <<>>, dep_state |-> <<>>]
    /\ supplied = None
    /\ bound = <<>>
    /\ outgoing = None
    /\ spc = "called"

\* parse_script on a script.
Init == CompilerInit /\ ConsoleInit /\ StateIdle
Next ==
    \/ Track /\ UNCHANGED <<consoleVars, stateVars>>
    \/ AnalyzeCycle /\ UNCHANGED <<consoleVars, stateVars>>
    \/ Analyze /\ UNCHANGED <<consoleVars, stateVars>>
    \/ Rewrite /\ UNCHANGED <<consoleVars, stateVars>>
Spec == Init /\ [][Next]_vars

\* The console on the compiled circuits.  _trigger_circuit's loop is
\* synchronous code: once entered, its next pass is taken.
ConsoleLoop == IterateRaises \/ IterateStable \/ IteratePrints
ConsoleSpecInit == CompilerIdle /\ ConsoleInit /\ StateIdle
ConsoleSpecNext ==
    \/ (\E name \in Circuits : Select(name)) /\ UNCHANGED <<compilerVars, stateVars>>
    \/ SelectUnknown /\ UNCHANGED <<compilerVars, stateVars>>
    \/ (\E name \in {"a", "b"} : Toggle(name)) /\ UNCHANGED <<compilerVars, stateVars>>
    \/ Tick /\ UNCHANGED <<compilerVars, stateVars>>
    \/ IterateRaises /\ UNCHANGED <<compilerVars, stateVars>>
    \/ IterateStable /\ UNCHANGED <<compilerVars, stateVars>>
    \/ IteratePrints /\ UNCHANGED <<compilerVars, stateVars>>
ConsoleSpec ==
    ConsoleSpecInit /\ [][ConsoleSpecNext]_vars
        /\ WF_vars(ConsoleLoop /\ UNCHANGED <<compilerVars, stateVars>>)

\* The unpack and pack statements on a supplied state.
StateSpecInit == CompilerIdle /\ ConsoleInit /\ StateInit
StateSpecNext ==
    \/ Unpack /\ UNCHANGED <<compilerVars, consoleVars>>
    \/ Pack /\ UNCHANGED <<compilerVars, consoleVars>>
StateSpec == StateSpecInit /\ [][StateSpecNext]_vars

(***************************************************************************)
(* Properties of parse_script.                                             *)
(***************************************************************************)
\* The callee names of definition d's call sites, in encounter order.
SiteCallees(d) ==
    LET calls == BodyCallNodes(prog[d].body)
    IN [i \in DOMAIN calls |-> calls[i].id[1]]

\* The definitions d reaches through one or more calls.
RECURSIVE CalledFrom(_)
CalledFrom(S) ==
    LET T == S \cup UNION {Range(SiteCallees(e)) : e \in S}
    IN IF T = S THEN S ELSE CalledFrom(T)

CallsTransitively(d) == CalledFrom(Range(SiteCallees(d)))

Analyzed == cpc \in {"analyzed", "rewritten"}

\* The number of call sites to stateful callees among d's first i call sites.
StatefulUpTo(d, i) ==
    Cardinality({j \in 1..i : parts[SiteCallees(d)[j]].stateful})

\* The definition's rewritten call expressions, in encounter order.
RewrittenSites(d) == BodyCallNodes(tree[d].body)

\* Call site i of d was given slot as one extra trailing argument.
AppendsSlot(d, i, slot) ==
    LET old == BodyCallNodes(prog[d].body)[i]
        new == RewrittenSites(d)[i]
    IN /\ Len(new.args) = Len(old.args) + 1
       /\ new.args[Len(new.args)] = Name(slot)

\* Call site i of d is the value of an assignment whose target is now
\* (original target, slot).
CapturesSlot(d, i, slot) ==
    \A k \in DOMAIN prog[d].body :
        (prog[d].body[k].value = BodyCallNodes(prog[d].body)[i]
            /\ Len(BodyCallNodes(SubSeq(prog[d].body, 1, k - 1))) = i - 1)
        => tree[d].body[k].target = Append(prog[d].body[k].target, slot)

\* C1: for every call site whose callee is stateful (through its own state
\* variables or only through a stateful callee; as the value of an assignment
\* or nested in an expression or argument) the rewriter appends exactly one
\* trailing argument, the dep_state slot allocated for that call site, and
\* captures the result as (original target, that slot); call sites to
\* non-stateful callees are untouched; every slot of dep_state is consumed by
\* exactly one call site.
C1_EveryStatefulCallThreaded ==
    cpc = "rewritten" =>
        \A d \in DOMAIN prog :
            /\ \A i \in DOMAIN SiteCallees(d) :
                  IF parts[SiteCallees(d)[i]].stateful
                  THEN /\ StatefulUpTo(d, i) \in DOMAIN parts[d].dep_state
                       /\ AppendsSlot(d, i, parts[d].dep_state[StatefulUpTo(d, i)])
                       /\ CapturesSlot(d, i, parts[d].dep_state[StatefulUpTo(d, i)])
                  ELSE Len(RewrittenSites(d)[i].args)
                          = Len(BodyCallNodes(prog[d].body)[i].args)
            /\ \A k \in DOMAIN parts[d].dep_state :
                  Cardinality({i \in DOMAIN SiteCallees(d) :
                                  AppendsSlot(d, i, parts[d].dep_state[k])}) = 1

\* C2: after analysis (the graph is acyclic), a definition is stateful iff it
\* has own state variables or one of its call sites names a stateful callee;
\* equivalently iff it, or a definition it reaches through calls, has own
\* state variables.
C2_StatefulIffOwnOrCalleeStateful ==
    Analyzed =>
        \A d \in DOMAIN prog :
            /\ parts[d].stateful <=>
                  (parts[d].state # <<>>
                      \/ \E c \in Range(SiteCallees(d)) : parts[c].stateful)
            /\ parts[d].stateful <=>
                  \E e \in {d} \cup CallsTransitively(d) : parts[e].state # <<>>

\* A definition without own state is stateful through a chain of exactly
\* ChainDepth calls.
C2_Witness ==
    /\ Analyzed
    /\ DOMAIN prog = 1..(ChainDepth + 1)
    /\ \A d \in 1..ChainDepth : parts[d].state = <<>>
    /\ parts[ChainDepth + 1].state # <<>>
    /\ parts[1].stateful

\* C3: after analysis, dep_state holds one slot per call site whose callee is
\* stateful, in call-site encounter order, and no slot identifier occurs
\* twice in the script.
C3_SlotsInOrderAndUnique ==
    Analyzed =>
        /\ \A d \in DOMAIN prog :
              LET stateful_sites == SelectSeq(SiteCallees(d), LAMBDA c : parts[c].stateful)
                  slots == parts[d].dep_state
              IN /\ Len(slots) = Len(stateful_sites)
                 /\ \A i \in DOMAIN slots : slots[i][1] = stateful_sites[i]
                 /\ \A i \in DOMAIN slots : \A j \in DOMAIN slots :
                        i < j => slots[i][2] < slots[j][2]
        /\ \A d \in DOMAIN prog : \A e \in DOMAIN prog :
              \A i \in DOMAIN parts[d].dep_state : \A j \in DOMAIN parts[e].dep_state :
                  (d # e \/ i # j) => parts[d].dep_state[i] # parts[e].dep_state[j]

\* Two definitions each hold a slot for the same stateful callee.
C3_Witness ==
    /\ Analyzed
    /\ \E d \in DOMAIN prog : \E e \in DOMAIN prog :
          /\ d # e
          /\ \E i \in DOMAIN parts[d].dep_state : \E j \in DOMAIN parts[e].dep_state :
                parts[d].dep_state[i][1] = parts[e].dep_state[j][1]

\* C4: when a definition calls itself, directly or through other
\* definitions, parse_script ends in CycleError: no slot is ever allocated
\* and the tree is never rewritten.  (Either that outcome holds, or no
\* definition calls itself.)
C4_CycleRejected ==
    \/ /\ cpc \in {"parsed", "tracked", "CycleError"}
       /\ tree = prog
       /\ cpc # "parsed" => \A d \in DOMAIN prog : parts[d].dep_state = <<>>
       /\ cpc = "tracked" => ENABLED AnalyzeCycle /\ ~ENABLED Analyze
    \/ ~\E d \in DOMAIN prog : d \in CallsTransitively(d)

\* A script whose only cycle passes through a second definition was rejected.
C4_Witness ==
    /\ cpc = "CycleError"
    /\ \A d \in DOMAIN prog : d \notin Range(SiteCallees(d))
    /\ \E d \in DOMAIN prog : d \in CallsTransitively(d)

(***************************************************************************)
(* Properties of the console.                                              *)
(***************************************************************************)
Selected == current_func # NoCircuit
RunMade == Selected /\ pc # "idle"

\* The current run is one whose results alternate between two values for
\* ever.
Alternating == RunMade /\ alternates

C5_Safe ==
    Alternating =>
        /\ pc \in {"running", "aborted"}
        /\ pc = "running" => invocations < MAX_ITERATIONS /\ iteration = invocations
        /\ pc = "aborted" => invocations = MAX_ITERATIONS /\ iteration = MAX_ITERATIONS

\* C5: a toggle or tick of a definition whose result alternates forever
\* between two values on the fixed inputs terminates, ends aborted when the
\* iteration counter reaches MAX_ITERATIONS = 100, after exactly 100 calls of
\* the definition, and never ends stable.
C5_AlternationAbortsAtMaxIterations ==
    /\ [](C5_Safe)
    /\ (Alternating /\ pc = "running") ~> (pc = "aborted")

C5_Witness ==
    /\ Alternating
    /\ pc = "aborted"
    /\ invocations = 100
    /\ rows = 100

\* C6: a toggle or tick of a selected definition that is not stateful ends
\* stable after exactly one printed row, and the result is the definition's
\* value on the current inputs (NAND: 1 on {0, 0}, 0 on {1, 1}).
C6_NonStatefulStabilizesAtOnce ==
    (RunMade /\ ~MarksStateful(Compiled(current_func))) =>
        /\ pc \in {"running", "stable"}
        /\ pc = "stable" =>
              /\ rows = 1
              /\ result = RunBody(current_func, InputValues, <<>>).out
              /\ (current_func = "NAND" /\ inputs["a"] = 0 /\ inputs["b"] = 0)
                    => result = PyInt(1)
              /\ (current_func = "NAND" /\ inputs["a"] = 1 /\ inputs["b"] = 1)
                    => result = PyInt(0)

\* C7: after the select of a registered definition the retained state is None
\* and the inputs map every parameter but the state parameter to 0, whatever
\* the circuit, inputs and retained state before the select were.
C7_SelectResets ==
    (Selected /\ pc = "idle") =>
        /\ state = None
        /\ DOMAIN inputs = Range(Compiled(current_func).args)
        /\ \A name \in DOMAIN inputs : inputs[name] = 0

C7_Witness ==
    /\ Selected
    /\ pc = "idle"
    /\ before_select.pc = "aborted"
    /\ before_select.state # None
    /\ \E name \in DOMAIN before_select.inputs : before_select.inputs[name] = 1
    /\ MarksStateful(Compiled(current_func))

\* C8: when a call of the selected circuit fails during a toggle or tick, the
\* retained state after the failure is the retained state before that call.
C8_FailedCallKeepsState ==
    pc = "crashed" => state = before_call

C8_Witness ==
    /\ pc = "crashed"
    /\ state # None
    /\ state = before_call

\* C10 as stated: a run of a stateful definition that starts from the state
\* retained by earlier runs on the same inputs ends stable with the result of
\* the run that started from None on those inputs.
C10_CarriedRunMatchesFreshRun ==
    (/\ Selected
     /\ MarksStateful(Compiled(current_func))
     /\ pc = "stable"
     /\ hist.n = 2
     /\ hist.same
     /\ hist.ended = "stable") => result = hist.fresh

\* C10, amended: the same, for a run from None whose last call left the
\* retained state as it was before that call.
C10_CarriedRunMatchesSettledFreshRun ==
    (/\ Selected
     /\ MarksStateful(Compiled(current_func))
     /\ pc = "stable"
     /\ hist.n = 2
     /\ hist.same
     /\ hist.ended = "stable"
     /\ hist.fixed) => result = hist.fresh

C10_Witness ==
    /\ Selected
    /\ MarksStateful(Compiled(current_func))
    /\ pc = "stable"
    /\ hist.n = 2
    /\ hist.same
    /\ hist.ended = "stable"
    /\ hist.fixed
    /\ state # None
    /\ \E name \in DOMAIN inputs : inputs[name] = 1
    /\ result = hist.fresh

(***************************************************************************)
(* Properties of the unpack and pack statements.                           *)
(***************************************************************************)
\* No component of the supplied state is 0, None or missing.
RECURSIVE Nonzero(_)
Nonzero(v) ==
    CASE v[1] = "None" -> FALSE
      [] v[1] = "int" -> v[2] # 0
      [] v[1] = "tuple" -> v[2] # <<>> /\ \A i \in DOMAIN v[2] : Nonzero(v[2][i])

\* C9: with no state carried in, the unpack statement binds every own state
\* variable to 0 and every dep_state slot to None, so COUNT, which only reads
\* and returns count, returns 0 on its first call; with a supplied state of
\* nonzero values, unpacking then packing leaves a state equal to the
\* supplied one, for any number of components, one included.
C9_DefaultsAndRoundTrip ==
    /\ (spc # "called" /\ supplied = None) =>
          /\ Len(bound) = Len(layout.state) + Len(layout.dep_state)
          /\ \A i \in DOMAIN bound :
                bound[i] = IF i <= Len(layout.state) THEN PyInt(0) ELSE None
    /\ (spc = "packed" /\ Nonzero(supplied)) => outgoing = supplied
    /\ \A a \in {0, 1} :
          /\ CallCircuit("COUNT", <<PyInt(a)>>) = Return(PyTuple(<<PyInt(0), PyInt(0)>>))
          /\ CallCircuit("COUNT", <<PyInt(a), None>>) = CallCircuit("COUNT", <<PyInt(a)>>)

C9_Witness ==
    /\ spc = "packed"
    /\ Nonzero(supplied)
    /\ supplied[1] = "int"
    /\ Len(layout.state) = 1
    /\ layout.dep_state = <<>>
    /\ outgoing = supplied

====
